---- MODULE Spec2Model ----
(***************************************************************************)
(* Model of Noema/fix_tokenizer.py: the text repair functions and main().  *)
(*                                                                         *)
(* A Python str is a sequence of code points (naturals); a bytes object is *)
(* a sequence of naturals below 256.  A file is a record with its raw form *)
(* (byte-order mark, line endings) and its JSON payload.                   *)
(***************************************************************************)
EXTENDS Integers, Sequences, FiniteSets, TLC

(***************************************************************************)
(* Bounds of the model.                                                    *)
(***************************************************************************)
\* longest string of the exhaustive short-string family
MaxLen == 3
\* most pieces joined into one template text
MaxPieces == 3
\* most entries of an enumerated added_tokens list
MaxTokens == 2
\* most successive applications of one text function
MaxPasses == 2

(***************************************************************************)
(* Characters and strings.                                                 *)
(***************************************************************************)
OrdPairs ==
  { <<"<", 60>>, <<">", 62>>, <<"|", 124>>, <<" ", 32>>,
    <<"a", 97>>, <<"b", 98>>, <<"c", 99>>, <<"d", 100>>, <<"e", 101>>,
    <<"f", 102>>, <<"g", 103>>, <<"i", 105>>, <<"l", 108>>, <<"n", 110>>,
    <<"o", 111>>, <<"r", 114>>, <<"s", 115>>, <<"t", 116>>, <<"w", 119>>,
    <<"A", 65>>, <<"H", 72>>, <<"U", 85>>, <<"X", 88>>, <<"Y", 89>> }

Ord(c) == (CHOOSE p \in OrdPairs : p[1] = c)[2]

\* the str whose characters are the one-character strings of t
Str(t) == [i \in 1..Len(t) |-> Ord(t[i])]

FULLWIDTH_BAR == 65372
SPM_BLOCK == 9601
LessThan == 60
GreaterThan == 62
AsciiBar == 124

PayloadBOS ==
  <<FULLWIDTH_BAR>> \o Str(<<"b", "e", "g", "i", "n">>) \o <<SPM_BLOCK>>
    \o Str(<<"o", "f">>) \o <<SPM_BLOCK>>
    \o Str(<<"s", "e", "n", "t", "e", "n", "c", "e">>) \o <<FULLWIDTH_BAR>>
PayloadEOS ==
  <<FULLWIDTH_BAR>> \o Str(<<"e", "n", "d">>) \o <<SPM_BLOCK>>
    \o Str(<<"o", "f">>) \o <<SPM_BLOCK>>
    \o Str(<<"s", "e", "n", "t", "e", "n", "c", "e">>) \o <<FULLWIDTH_BAR>>
PayloadUser ==
  <<FULLWIDTH_BAR>> \o Str(<<"U", "s", "e", "r">>) \o <<FULLWIDTH_BAR>>
PayloadAssistant ==
  <<FULLWIDTH_BAR>> \o Str(<<"A", "s", "s", "i", "s", "t", "a", "n", "t">>)
    \o <<FULLWIDTH_BAR>>

CANON_BOS == <<LessThan>> \o PayloadBOS \o <<GreaterThan>>
CANON_EOS == <<LessThan>> \o PayloadEOS \o <<GreaterThan>>
CANON_USER == <<LessThan>> \o PayloadUser \o <<GreaterThan>>
CANON_ASSISTANT == <<LessThan>> \o PayloadAssistant \o <<GreaterThan>>

ZERO_WIDTHS == {65279, 8203, 8288, 8205, 8204, 8206, 8207, 65038, 65039}
SPACE_VARIANTS == {160, 8239, 8199, 8201}
\* pairs <<curly quote, ASCII quote>>
CURLY_TO_ASCII == {<<8216, 39>>, <<8217, 39>>, <<8220, 34>>, <<8221, 34>>}
DASHES_TO_ASCII_HYPHEN == {8208, 8209, 8211, 8212}

\* The three string literals of demojibake_and_normalize, score and
\* has_mojibake_remnants.  The second is written with the escape \x81, the
\* third holds the character U+0081 itself after the dash: the two literals
\* are the same three-character string.
MOJI_BAR == <<239, 189, 339>>
MOJI_BLOCK_ESCAPED == <<226, 8211, 129>>
MOJI_BLOCK_LITERAL == <<226, 8211, 129>>

(***************************************************************************)
(* str methods: s.replace(old, new), old in s, s.count(ch), s.find(ch, i), *)
(* s.strip().                                                              *)
(***************************************************************************)
MatchAt(s, p, i) ==
  /\ i + Len(p) - 1 <= Len(s)
  /\ \A k \in 1..Len(p) : s[i + k - 1] = p[k]

RECURSIVE ReplaceFrom(_, _, _, _)
ReplaceFrom(s, old, new, i) ==
  IF i > Len(s) THEN <<>>
  ELSE IF MatchAt(s, old, i) THEN new \o ReplaceFrom(s, old, new, i + Len(old))
  ELSE <<s[i]>> \o ReplaceFrom(s, old, new, i + 1)

Replace(s, old, new) == ReplaceFrom(s, old, new, 1)

Contains(s, p) == \E i \in 1..Len(s) : MatchAt(s, p, i)

Count(s, ch) == Cardinality({i \in 1..Len(s) : s[i] = ch})

\* the first index >= from holding ch, 0 when there is none
Find(s, ch, from) ==
  LET hits == {k \in from..Len(s) : s[k] = ch}
  IN IF hits = {} THEN 0 ELSE CHOOSE k \in hits : \A m \in hits : k <= m

\* the characters str.isspace() holds of
WhiteSpace ==
  {9, 10, 11, 12, 13, 28, 29, 30, 31, 32, 133, 160, 5760, 8232, 8233, 8239,
   8287, 12288} \cup (8192..8202)

Strip(s) ==
  LET keep == {i \in 1..Len(s) : s[i] \notin WhiteSpace}
  IN IF keep = {} THEN <<>>
     ELSE LET lo == CHOOSE i \in keep : \A m \in keep : i <= m
              hi == CHOOSE i \in keep : \A m \in keep : m <= i
          IN SubSeq(s, lo, hi)

(***************************************************************************)
(* Codecs: s.encode("latin-1", errors="ignore"),                           *)
(* s.encode("cp1252", errors="ignore"), b.decode("utf-8", errors="ignore") *)
(* and unicodedata.normalize("NFC", s).                                    *)
(***************************************************************************)
IsLatin1(c) == c <= 255

EncodeLatin1Ignore(s) == SelectSeq(s, IsLatin1)

\* cp1252's bytes 0x80..0x9F as pairs <<code point, byte>>; 0x81, 0x8D, 0x8F,
\* 0x90 and 0x9D are undefined, and U+0080..U+009F are not encodable
Cp1252High ==
  { <<8364, 128>>, <<8218, 130>>, <<402, 131>>, <<8222, 132>>, <<8230, 133>>,
    <<8224, 134>>, <<8225, 135>>, <<710, 136>>, <<8240, 137>>, <<352, 138>>,
    <<8249, 139>>, <<338, 140>>, <<381, 142>>, <<8216, 145>>, <<8217, 146>>,
    <<8220, 147>>, <<8221, 148>>, <<8226, 149>>, <<8211, 150>>, <<8212, 151>>,
    <<732, 152>>, <<8482, 153>>, <<353, 154>>, <<8250, 155>>, <<339, 156>>,
    <<382, 158>>, <<376, 159>> }

IsCp1252(c) ==
  \/ c <= 127
  \/ (160 <= c /\ c <= 255)
  \/ \E p \in Cp1252High : p[1] = c

Cp1252Byte(c) ==
  IF c <= 255 THEN c ELSE (CHOOSE p \in Cp1252High : p[1] = c)[2]

EncodeCp1252Ignore(s) ==
  LET kept == SelectSeq(s, IsCp1252)
  IN [i \in 1..Len(kept) |-> Cp1252Byte(kept[i])]

IsCont(b, i) == i <= Len(b) /\ 128 <= b[i] /\ b[i] <= 191

\* the length of the well-formed UTF-8 sequence starting at b[i], 0 when the
\* byte starts none
Utf8Width(b, i) ==
  LET c == b[i]
  IN CASE c <= 127 -> 1
       [] 194 <= c /\ c <= 223 -> IF IsCont(b, i + 1) THEN 2 ELSE 0
       [] 224 <= c /\ c <= 239 ->
            IF /\ IsCont(b, i + 1)
               /\ IsCont(b, i + 2)
               /\ (c = 224 => b[i + 1] >= 160)
               /\ (c = 237 => b[i + 1] <= 159)
            THEN 3 ELSE 0
       [] 240 <= c /\ c <= 244 ->
            IF /\ IsCont(b, i + 1)
               /\ IsCont(b, i + 2)
               /\ IsCont(b, i + 3)
               /\ (c = 240 => b[i + 1] >= 144)
               /\ (c = 244 => b[i + 1] <= 143)
            THEN 4 ELSE 0
       [] OTHER -> 0

Utf8CodePoint(b, i, w) ==
  CASE w = 1 -> b[i]
    [] w = 2 -> (b[i] - 192) * 64 + (b[i + 1] - 128)
    [] w = 3 -> (b[i] - 224) * 4096 + (b[i + 1] - 128) * 64 + (b[i + 2] - 128)
    [] OTHER -> (b[i] - 240) * 262144 + (b[i + 1] - 128) * 4096
                  + (b[i + 2] - 128) * 64 + (b[i + 3] - 128)

\* errors="ignore": a byte that starts no well-formed sequence is dropped and
\* decoding resumes at the next byte
RECURSIVE DecodeUtf8From(_, _)
DecodeUtf8From(b, i) ==
  IF i > Len(b) THEN <<>>
  ELSE LET w == Utf8Width(b, i)
       IN IF w = 0 THEN DecodeUtf8From(b, i + 1)
          ELSE <<Utf8CodePoint(b, i, w)>> \o DecodeUtf8From(b, i + w)

DecodeUtf8Ignore(b) == DecodeUtf8From(b, 1)

\* canonical compositions <<starter, combining mark, composed>> among the
\* characters the model's inputs hold (e + U+0301, A + U+0303)
NfcPairs == {<<101, 769, 233>>, <<65, 771, 195>>}

RECURSIVE NfcFrom(_, _)
NfcFrom(s, i) ==
  IF i > Len(s) THEN <<>>
  ELSE IF i < Len(s) /\ \E p \in NfcPairs : p[1] = s[i] /\ p[2] = s[i + 1]
  THEN <<(CHOOSE p \in NfcPairs : p[1] = s[i] /\ p[2] = s[i + 1])[3]>>
         \o NfcFrom(s, i + 2)
  ELSE <<s[i]>> \o NfcFrom(s, i + 1)

NFC(s) == NfcFrom(s, 1)

(***************************************************************************)
(* Strings the inputs are built from.                                      *)
(***************************************************************************)
\* the corrupted spellings of a canonical marker: its UTF-8 bytes read as
\* Latin-1, read as Windows-1252 (0x81 kept as U+0081), and the latter with
\* the U+0081 lost
SpellAs(canon, bar, block) ==
  Replace(Replace(canon, <<FULLWIDTH_BAR>>, bar), <<SPM_BLOCK>>, block)
Latin1Form(canon) == SpellAs(canon, <<239, 189, 156>>, <<226, 150, 129>>)
Cp1252Form(canon) == SpellAs(canon, <<239, 189, 339>>, <<226, 8211, 129>>)
TruncatedForm(canon) == SpellAs(canon, <<239, 189, 339>>, <<226, 8211>>)

sX == Str(<<"X">>)
AsciiUser == <<LessThan, AsciiBar>> \o Str(<<"U", "s", "e", "r">>) \o <<AsciiBar, GreaterThan>>
\* the UTF-8 bytes of U+00E9 read as Latin-1
MojiEacute == <<195, 169>>

Hello == Str(<<"H", "e", "l", "l", "o", " ">>)
World == Str(<<" ", "w", "o", "r", "l", "d">>)

(***************************************************************************)
(* Text Repair Engine.                                                     *)
(***************************************************************************)
has_mojibake_remnants(s) ==
  Contains(s, MOJI_BAR) \/ Contains(s, MOJI_BLOCK_ESCAPED)
    \/ Contains(s, MOJI_BLOCK_LITERAL)

B2I(b) == IF b THEN 1 ELSE 0

\* score(t) = (remnants, -canon)
score(t) ==
  << B2I(Contains(t, MOJI_BAR)) + B2I(Contains(t, MOJI_BLOCK_ESCAPED))
       + B2I(Contains(t, MOJI_BLOCK_LITERAL)),
     0 - (Count(t, FULLWIDTH_BAR) + Count(t, SPM_BLOCK)) >>

\* tuple order of Python
ScoreLess(a, b) == a[1] < b[1] \/ (a[1] = b[1] /\ a[2] < b[2])

\* the direct replacements of line 70
DirectReplace(s) ==
  Replace(Replace(Replace(s, MOJI_BAR, <<FULLWIDTH_BAR>>),
                  MOJI_BLOCK_ESCAPED, <<SPM_BLOCK>>),
          MOJI_BLOCK_LITERAL, <<SPM_BLOCK>>)

Candidates(s) ==
  << DecodeUtf8Ignore(EncodeLatin1Ignore(s)),
     DecodeUtf8Ignore(EncodeCp1252Ignore(s)),
     DirectReplace(s) >>

\* min(candidates, key=score): the first candidate no other scores below
MinByScore(cs) ==
  LET sc == [i \in 1..Len(cs) |-> score(cs[i])]
      best == CHOOSE i \in 1..Len(cs) :
                /\ \A j \in 1..Len(cs) : ~ScoreLess(sc[j], sc[i])
                /\ \A j \in 1..(i - 1) : ScoreLess(sc[i], sc[j])
  IN cs[best]

\* lines 56-80
demojibake_and_normalize(s) == NFC(MinByScore(Candidates(s)))

(***************************************************************************)
(* Structural Cleaner and Marker Canonicalizer.                            *)
(***************************************************************************)
NotZeroWidth(c) == c \notin ZERO_WIDTHS

strip_zero_width_and_variation(s) == SelectSeq(s, NotZeroWidth)

NormalizeChar(c) ==
  IF c \in SPACE_VARIANTS THEN 32
  ELSE IF \E p \in CURLY_TO_ASCII : p[1] = c
  THEN (CHOOSE p \in CURLY_TO_ASCII : p[1] = c)[2]
  ELSE IF c \in DASHES_TO_ASCII_HYPHEN THEN 45
  ELSE c

normalize_space_dash_quotes_inside(s) ==
  [i \in 1..Len(s) |-> NormalizeChar(s[i])]

\* s.replace("\r\n", "\n").replace("\r", "\n")
standardize_line_endings(s) ==
  Replace(Replace(s, <<13, 10>>, <<10>>), <<13>>, <<10>>)

is_angle_bracketed(s) ==
  Len(s) >= 2 /\ s[1] = LessThan /\ s[Len(s)] = GreaterThan

\* the dict of lines 151-156 with the value of the last key mistaken
MarkerCandidatesMistaken ==
  { <<PayloadBOS, CANON_BOS>>, <<PayloadEOS, CANON_EOS>>,
    <<PayloadUser, CANON_USER>>, <<PayloadAssistant, CANON_USER>> }

\* the dict of lines 151-156, as pairs <<payload, canonical form>>
MarkerCandidates ==
  { <<PayloadBOS, CANON_BOS>>, <<PayloadEOS, CANON_EOS>>,
    <<PayloadUser, CANON_USER>>, <<PayloadAssistant, CANON_ASSISTANT>> }

looks_like_one_of_four_chat_markers(s) ==
  IF Len(s) < 3 THEN [ok |-> FALSE, canon |-> s]
  ELSE IF ~(s[1] = LessThan /\ s[Len(s)] = GreaterThan /\ Len(s) >= 2)
  THEN [ok |-> FALSE, canon |-> s]
  ELSE LET inner == SubSeq(s, 2, Len(s) - 1)
           inner_cmp == Replace(inner, <<AsciiBar>>, <<FULLWIDTH_BAR>>)
       IN IF \E p \in MarkerCandidates : p[1] = inner_cmp
          THEN [ok |-> TRUE,
                canon |-> (CHOOSE p \in MarkerCandidates : p[1] = inner_cmp)[2]]
          ELSE [ok |-> FALSE, canon |-> s]

cleanup_marker_like_string(s) ==
  LET t == Strip(normalize_space_dash_quotes_inside(
             standardize_line_endings(
               strip_zero_width_and_variation(demojibake_and_normalize(s)))))
      r == looks_like_one_of_four_chat_markers(t)
  IN IF r.ok THEN r.canon ELSE t

RECURSIVE ScanFrom(_, _)
ScanFrom(t, i) ==
  IF i > Len(t) THEN <<>>
  ELSE IF t[i] = LessThan /\ Find(t, GreaterThan, i + 1) # 0
  THEN LET j == Find(t, GreaterThan, i + 1)
       IN cleanup_marker_like_string(SubSeq(t, i, j)) \o ScanFrom(t, j + 1)
  ELSE <<t[i]>> \o ScanFrom(t, i + 1)

fix_markers_in_text(s) ==
  ScanFrom(standardize_line_endings(
             strip_zero_width_and_variation(demojibake_and_normalize(s))), 1)

\* lines 295-302 (and 348-350, 367-369): the repair of one content string
RepairContent(before) ==
  LET mid == demojibake_and_normalize(before)
  IN IF is_angle_bracketed(mid) THEN cleanup_marker_like_string(mid) ELSE mid

(***************************************************************************)
(* Files.  read_text(encoding="utf-8-sig") drops a leading byte-order mark *)
(* and, opening the file in text mode, turns \r\n and \r into \n;          *)
(* write_text(..., encoding="utf-8", newline="\n") writes neither.         *)
(***************************************************************************)
PRIMARY == "tokenizer.json"
PRIMARY_BAK == "tokenizer.json.bak"
SPMAP == "special_tokens_map.json"
SPMAP_BAK == "special_tokens_map.json.bak"
TCFG == "tokenizer_config.json"
TCFG_BAK == "tokenizer_config.json.bak"
VOCAB == "vocab.json"
\* the path of --out when it is not the path of --in
OUTP == "out.json"

FileNames == {PRIMARY, PRIMARY_BAK, SPMAP, SPMAP_BAK, TCFG, TCFG_BAK, VOCAB, OUTP}

NoData == [type |-> "none"]
Missing == [kind |-> "missing", bom |-> FALSE, crlf |-> FALSE, data |-> NoData]

Exists(f) == f.kind # "missing"

\* Path.read_text(encoding="utf-8-sig"): the text of a file
ReadText(f) == [f EXCEPT !.bom = FALSE, !.crlf = FALSE]

\* the file write_text leaves for a text
WriteText(t) == [kind |-> t.kind, bom |-> FALSE, crlf |-> FALSE, data |-> t.data]

\* json.loads of a text raises on a malformed one
Parses(t) == t.kind = "json"

(***************************************************************************)
(* JSON values.  A str-or-absent value is [has, s] with has one of         *)
(* "absent", "str", "other" (a value that is no str).  A token entry is    *)
(* [isdict, id, cstr, content, special, normalized]: cstr says the content *)
(* is a str, and the two flags are "absent", "true" or "false".  In memory *)
(* an entry also has obj, the identity id(tok) of its dict.                *)
(***************************************************************************)
NoStr == [has |-> "absent", s |-> <<>>]
JStr(s) == [has |-> "str", s |-> s]
JOther == [has |-> "other", s |-> <<>>]

Entry(id, content, special, normalized) ==
  [isdict |-> TRUE, id |-> id, cstr |-> TRUE, content |-> content,
   special |-> special, normalized |-> normalized]

\* json.loads builds one dict per entry: its identity is its position
WithObj(items) ==
  [i \in 1..Len(items) |->
     [isdict |-> items[i].isdict, id |-> items[i].id, cstr |-> items[i].cstr,
      content |-> items[i].content, special |-> items[i].special,
      normalized |-> items[i].normalized, obj |-> i]]

\* json.dumps writes the entries' fields, not their identities
WithoutObj(items) ==
  [i \in 1..Len(items) |->
     [isdict |-> items[i].isdict, id |-> items[i].id, cstr |-> items[i].cstr,
      content |-> items[i].content, special |-> items[i].special,
      normalized |-> items[i].normalized]]

\* json.loads(text) of the primary document
LoadTokenizer(d) ==
  [d EXCEPT !.added_tokens.items = WithObj(@), !.special_tokens.items = WithObj(@)]

\* json.dumps(tokenizer) in write_json
DumpTokenizer(t) ==
  [t EXCEPT !.added_tokens.items = WithoutObj(@),
            !.special_tokens.items = WithoutObj(@)]

(***************************************************************************)
(* The added_tokens pass and the special_tokens pass of main().            *)
(***************************************************************************)
\* lines 290-315 on one entry, without the assignment of lines 314-315
RepairEntryKeepsNormalized(tok) ==
  IF ~tok.isdict \/ ~tok.cstr THEN tok
  ELSE LET after == RepairContent(tok.content)
       IN [tok EXCEPT !.content = after,
                      !.special = IF after \in {CANON_BOS, CANON_EOS} THEN "true" ELSE @]

\* lines 290-315 on one entry, without the assignment of lines 312-313
RepairEntryKeepsSpecial(tok) ==
  IF ~tok.isdict \/ ~tok.cstr THEN tok
  ELSE [tok EXCEPT !.content = RepairContent(tok.content), !.normalized = "false"]

\* lines 290-315 on one entry
RepairEntry(tok) ==
  IF ~tok.isdict \/ ~tok.cstr THEN tok
  ELSE LET after == RepairContent(tok.content)
       IN [tok EXCEPT !.content = after,
                      !.special = IF after \in {CANON_BOS, CANON_EOS} THEN "true" ELSE @,
                      !.normalized = "false"]

RepairEntries(items) == [i \in 1..Len(items) |-> RepairEntry(items[i])]

\* lines 304-305 (and 370-371): the entries whose content the pass changed
CountChanges(items, after) ==
  Cardinality({i \in 1..Len(items) :
                 items[i].isdict /\ items[i].cstr /\ after[i].content # items[i].content})

\* lines 317-330: seen is seen_content as pairs <<content, id>>, removed is
\* dedup_removed (index from 0, as enumerate counts)
RECURSIVE DedupeFrom(_, _, _, _, _)
DedupeFrom(items, idx, seen, removed, new_list) ==
  IF idx > Len(items) THEN [removed |-> removed, new_list |-> new_list]
  ELSE LET tok == items[idx]
       IN IF ~tok.isdict
          THEN DedupeFrom(items, idx + 1, seen, removed, Append(new_list, tok))
          ELSE IF tok.cstr /\ \E p \in seen : p[1] = tok.content
          THEN DedupeFrom(items, idx + 1, seen,
                          Append(removed, <<idx - 1, tok.id, tok.content>>), new_list)
          ELSE IF tok.cstr
          THEN DedupeFrom(items, idx + 1, seen \cup {<<tok.content, tok.id>>},
                          removed, Append(new_list, tok))
          ELSE DedupeFrom(items, idx + 1, seen, removed, Append(new_list, tok))

\* lines 317-330 recording the position counted from 1
DedupeFromOne(items) ==
  LET d == DedupeFrom(items, 1, {}, <<>>, <<>>)
  IN [d EXCEPT !.removed =
        [k \in 1..Len(d.removed) |->
           <<d.removed[k][1] + 1, d.removed[k][2], d.removed[k][3]>>]]

Dedupe(items) == DedupeFrom(items, 1, {}, <<>>, <<>>)

\* lines 345-361 on one value of a special_tokens mapping
RepairRole(k, v) ==
  IF v.has # "str" THEN v
  ELSE LET after == RepairContent(v.s)
           r == looks_like_one_of_four_chat_markers(after)
       IN IF k \in {"bos_token", "eos_token"} /\ r.ok THEN JStr(r.canon)
          ELSE JStr(after)

RoleKeys == {"bos_token", "eos_token", "pad_token"}

RepairRoles(m) == [k \in RoleKeys |-> RepairRole(k, m[k])]

\* lines 356-357
CountRoleChanges(m, after) == Cardinality({k \in RoleKeys : after[k] # m[k]})

\* lines 363-375 on one entry of a special_tokens list
RepairListEntry(tok) ==
  IF ~tok.isdict \/ ~tok.cstr THEN tok
  ELSE [tok EXCEPT !.content = RepairContent(tok.content)]

RepairListEntries(items) == [i \in 1..Len(items) |-> RepairListEntry(items[i])]

(***************************************************************************)
(* The state of one run of main(), and of one evaluation of the text       *)
(* functions.                                                              *)
(***************************************************************************)
VARIABLES
  args,            \* [dry, inplace]: --dry-run, and --out naming the input
  fs,              \* the files beside the primary document
  fs0,             \* the files as they were when the run began
  pc,              \* the position of main()
  rc,              \* the process exit status, -1 while running
  exitVia,         \* the return (or traceback) main() left through
  tokenizer,       \* the parsed primary document
  id_by_obj,       \* pairs <<id(tok), tok.get("id")>>
  modified_count,
  dedup_removed,
  repaired,        \* added_tokens as the content loop leaves it (line 316)
  errors,          \* the validation errors, in order
  st_map,          \* the parsed special_tokens_map.json
  after_tpl,       \* the rewritten chat_template, [has, s]
  writes,          \* the files written by this run, in order, with their content
  tfn,             \* the text function under evaluation
  tin,             \* its input
  touts,           \* its successive results
  tmark            \* the result of looks_like_one_of_four_chat_markers

mainVars ==
  <<args, fs, fs0, pc, rc, exitVia, tokenizer, id_by_obj, modified_count,
    dedup_removed, repaired, errors, st_map, after_tpl, writes>>
textVars == <<tfn, tin, touts, tmark>>
vars == <<mainVars, textVars>>

Err(kind, idx, text) == [kind |-> kind, idx |-> idx, text |-> text]

\* the four samples of the self-test (lines 238-243, 587-592)
SelfTestSamples ==
  << <<Cp1252Form(CANON_BOS), CANON_BOS>>, <<Cp1252Form(CANON_EOS), CANON_EOS>>,
     <<Cp1252Form(CANON_USER), CANON_USER>>,
     <<Cp1252Form(CANON_ASSISTANT), CANON_ASSISTANT>> >>

\* lines 245-253, 594-602: the first failing sample raises, and the except
\* clause appends one error
SelfTestFails ==
  \E i \in 1..Len(SelfTestSamples) :
    LET r == looks_like_one_of_four_chat_markers(
               demojibake_and_normalize(SelfTestSamples[i][1]))
    IN ~r.ok \/ r.canon # SelfTestSamples[i][2]

SelfTestErrors == IF SelfTestFails THEN <<Err("selftest", 0, <<>>)>> ELSE <<>>

(***************************************************************************)
(* Inputs.                                                                 *)
(***************************************************************************)
NonDictEntry ==
  [isdict |-> FALSE, id |-> 0, cstr |-> FALSE, content |-> <<>>,
   special |-> "absent", normalized |-> "absent"]
NoContentEntry ==
  [isdict |-> TRUE, id |-> 8, cstr |-> FALSE, content |-> <<>>,
   special |-> "absent", normalized |-> "absent"]

EntryPool ==
  { Entry(5, sX, "absent", "absent"),
    Entry(9, sX, "false", "true"),
    Entry(1, CANON_BOS, "false", "true"),
    Entry(2, CANON_EOS, "true", "false"),
    Entry(3, Cp1252Form(CANON_BOS), "absent", "absent"),
    Entry(4, AsciiUser, "false", "false"),
    Entry(7, MojiEacute, "true", "absent"),
    NonDictEntry,
    NoContentEntry }

TokenLists(n) == UNION {[1..k -> EntryPool] : k \in 0..n}

Roles(bos, eos, pad) == [bos_token |-> bos, eos_token |-> eos, pad_token |-> pad]
NoRoles == Roles(NoStr, NoStr, NoStr)

AbsentTokens == [kind |-> "absent", items |-> <<>>]
ListOf(items) == [kind |-> "list", items |-> items]
StAbsent == [kind |-> "absent", map |-> NoRoles, items |-> <<>>]
StDict(m) == [kind |-> "dict", map |-> m, items |-> <<>>]
StList(items) == [kind |-> "list", map |-> NoRoles, items |-> items]
NoVocab == [kind |-> "absent", map |-> {}]
VocabOf(m) == [kind |-> "dict", map |-> m]

Doc(added, st, vocab, patterns) ==
  [type |-> "tokenizer", added_tokens |-> added, special_tokens |-> st,
   vocab |-> vocab, patterns |-> patterns]

StPool ==
  { StAbsent,
    StDict(Roles(JStr(CANON_BOS), JStr(CANON_EOS), NoStr)),
    StDict(Roles(JStr(Cp1252Form(CANON_BOS)), NoStr, JStr(sX))),
    StDict(Roles(JStr(sX), JStr(CANON_EOS), JOther)),
    StList(<<Entry(2, CANON_EOS, "true", "false")>>),
    StList(<<Entry(1, Cp1252Form(CANON_BOS), "true", "false"), NonDictEntry>>) }

SpmapData(bos, eos) == [type |-> "spmap", bos_token |-> bos, eos_token |-> eos]

\* a pattern holding a corrupted bar, and one with a Unicode-property escape
BadPattern == <<92, 112, 123, 76, 125>> \o MOJI_BAR
PropPattern == <<92, 112, 123, 76, 125>>

GoodTokens ==
  <<Entry(1, CANON_BOS, "true", "false"), Entry(2, CANON_EOS, "true", "false")>>

\* the documents of the runs that vary the files and the mode
ModeDocs ==
  { Doc(ListOf(GoodTokens), StAbsent, NoVocab, <<PropPattern>>),
    Doc(ListOf(<<Entry(3, Cp1252Form(CANON_BOS), "false", "true"),
                 Entry(2, CANON_EOS, "true", "false")>>), StAbsent, NoVocab, <<>>),
    Doc(ListOf(<<Entry(1, CANON_BOS, "true", "false")>>), StAbsent, NoVocab, <<>>),
    Doc(ListOf(GoodTokens), StAbsent, NoVocab, <<BadPattern>>),
    Doc(ListOf(GoodTokens), StAbsent,
        VocabOf({<<CANON_BOS, 1>>, <<CANON_EOS, 7>>}), <<>>) }

\* the documents of the runs that vary the tokens: every list of up to
\* MaxTokens entries, without special_tokens or with the EOS marker there
TokenDocs ==
  {Doc(a, st, NoVocab, <<>>) :
     a \in {AbsentTokens} \cup {ListOf(l) : l \in TokenLists(MaxTokens)},
     st \in {StAbsent, StList(<<Entry(2, CANON_EOS, "true", "false")>>)}}

\* the documents of the runs that vary the places a marker is looked for
MarkerDocs ==
  {Doc(a, st, NoVocab, <<>>) :
     a \in {AbsentTokens, ListOf(<<>>),
            ListOf(<<Entry(1, CANON_BOS, "true", "false")>>), ListOf(GoodTokens)},
     st \in StPool}

JsonFile(bom, crlf, data) == [kind |-> "json", bom |-> bom, crlf |-> crlf, data |-> data]
BadFile(kind, bom, crlf) == [kind |-> kind, bom |-> bom, crlf |-> crlf, data |-> NoData]

PrimaryFiles(docs, bom, crlf) ==
  {Missing, BadFile("undecodable", FALSE, crlf), BadFile("malformed", bom, crlf),
   JsonFile(bom, crlf, [type |-> "nonobject"])}
    \cup {JsonFile(bom, crlf, d) : d \in docs}

SpmapFiles(bom, crlf) ==
  {Missing, BadFile("malformed", bom, crlf),
   JsonFile(bom, crlf, SpmapData(NoStr, NoStr)),
   JsonFile(bom, crlf, SpmapData(JStr(CANON_BOS), JStr(CANON_EOS))),
   JsonFile(bom, crlf, SpmapData(JStr(Cp1252Form(CANON_BOS)), JStr(CANON_EOS))),
   JsonFile(bom, crlf, SpmapData(JStr(sX), JOther))}

TcfgData(isdict, tpl) == [type |-> "tcfg", isdict |-> isdict, chat_template |-> tpl]

TcfgFiles(bom, crlf) ==
  {Missing, BadFile("malformed", bom, crlf),
   JsonFile(bom, crlf, TcfgData(TRUE, NoStr)),
   JsonFile(bom, crlf, TcfgData(TRUE, JStr(Hello \o AsciiUser \o World))),
   JsonFile(bom, crlf, TcfgData(TRUE, JStr(Hello \o CANON_USER \o World)))}

VocabData(m) == [type |-> "vocab", map |-> m]

VocabFiles(bom, crlf) ==
  {Missing, BadFile("malformed", bom, crlf),
   JsonFile(bom, crlf, VocabData({})),
   JsonFile(bom, crlf, VocabData({<<CANON_BOS, 1>>, <<sX, 5>>})),
   JsonFile(bom, crlf, VocabData({<<CANON_BOS, 6>>}))}

\* the raw forms of the files of one run: plain, with a byte-order mark,
\* with \r\n line endings
RawForms == {<<FALSE, FALSE>>, <<TRUE, FALSE>>, <<FALSE, TRUE>>}

\* <<--out names the input, raw form>>: in place over every raw form, and
\* to another path
OutAndRaw == {<<TRUE, r>> : r \in RawForms} \cup {<<FALSE, <<FALSE, FALSE>>>>}

MkFs(primary, spmap, tcfg, vocab) ==
  [f \in FileNames |->
     CASE f = PRIMARY -> primary
       [] f = SPMAP -> spmap
       [] f = TCFG -> tcfg
       [] f = VOCAB -> vocab
       [] OTHER -> Missing]

NoTokenizer == Doc(AbsentTokens, StAbsent, NoVocab, <<>>)
NoSpmap == SpmapData(NoStr, NoStr)

\* the state main() starts in, given its arguments and the files
Start(a, files) ==
  /\ args = a
  /\ fs = files
  /\ fs0 = files
  /\ pc = "load"
  /\ rc = -1
  /\ exitVia = "none"
  /\ tokenizer = NoTokenizer
  /\ id_by_obj = {}
  /\ modified_count = 0
  /\ dedup_removed = <<>>
  /\ repaired = <<>>
  /\ errors = <<>>
  /\ st_map = NoSpmap
  /\ after_tpl = NoStr
  /\ writes = <<>>

TextIdle ==
  /\ tfn = "none"
  /\ tin = <<>>
  /\ touts = <<>>
  /\ tmark = [done |-> FALSE, ok |-> FALSE, canon |-> <<>>]

\* runs over every mode, raw form and combination of companion files
InitModes ==
  \E dry \in BOOLEAN, m \in OutAndRaw :
    \E p \in PrimaryFiles(ModeDocs, m[2][1], m[2][2]),
       s \in SpmapFiles(m[2][1], m[2][2]),
       t \in TcfgFiles(m[2][1], m[2][2]) :
      Start([dry |-> dry, inplace |-> m[1]], MkFs(p, s, t, Missing))

\* in-place runs beside a vocab.json
InitVocab ==
  \E dry \in BOOLEAN, d \in ModeDocs, v \in VocabFiles(FALSE, FALSE) :
    Start([dry |-> dry, inplace |-> TRUE],
          MkFs(JsonFile(FALSE, FALSE, d), Missing, Missing, v))

\* normal in-place runs over every token list
InitTokens ==
  \E d \in TokenDocs :
    Start([dry |-> FALSE, inplace |-> TRUE],
          MkFs(JsonFile(FALSE, FALSE, d), Missing, Missing, Missing))

\* normal in-place runs over the places a marker is looked for
InitMarkers ==
  \E d \in MarkerDocs :
    \E s \in {Missing, JsonFile(FALSE, FALSE, SpmapData(NoStr, NoStr)),
              JsonFile(FALSE, FALSE, SpmapData(JStr(CANON_BOS), JOther))} :
      Start([dry |-> FALSE, inplace |-> TRUE],
            MkFs(JsonFile(FALSE, FALSE, d), s, Missing, Missing))

Init == (InitModes \/ InitVocab \/ InitTokens \/ InitMarkers) /\ TextIdle

(***************************************************************************)
(* main(), lines 221-663.                                                  *)
(***************************************************************************)
Exit(code, via) ==
  /\ rc' = code
  /\ exitVia' = via
  /\ pc' = "done"

Written(name, file) == writes' = Append(writes, [file |-> name, content |-> file])

\* lines 231-264 without the branch of line 232: not found, in either mode
LoadMissingNoSelfTest ==
  /\ pc = "load"
  /\ ~Exists(fs[PRIMARY])
  /\ Exit(2, "not_found")
  /\ UNCHANGED <<args, fs, fs0, tokenizer, id_by_obj, modified_count, dedup_removed,
                 repaired, errors, st_map, after_tpl, writes, textVars>>

\* lines 231-264: the input file does not exist
LoadMissing ==
  /\ pc = "load"
  /\ ~Exists(fs[PRIMARY])
  /\ \/ /\ args.dry
        /\ errors' = SelfTestErrors
        /\ Exit(IF SelfTestErrors # <<>> THEN 1 ELSE 0, "selftest_only")
     \/ /\ ~args.dry
        /\ errors' = errors
        /\ Exit(2, "not_found")
  /\ UNCHANGED <<args, fs, fs0, tokenizer, id_by_obj, modified_count,
                 dedup_removed, repaired, st_map, after_tpl, writes, textVars>>

\* lines 266-274: bytes that are no UTF-8 raise out of load_json_text_bytes
\* (a traceback, exit status 1); text that is no JSON returns 2
LoadExisting ==
  /\ pc = "load"
  /\ Exists(fs[PRIMARY])
  /\ \/ /\ fs[PRIMARY].kind = "undecodable"
        /\ Exit(1, "traceback")
        /\ UNCHANGED tokenizer
     \/ /\ fs[PRIMARY].kind = "malformed"
        /\ Exit(2, "parse_error")
        /\ UNCHANGED tokenizer
     \/ /\ Parses(ReadText(fs[PRIMARY]))
        /\ tokenizer' = IF fs[PRIMARY].data.type = "tokenizer"
                        THEN LoadTokenizer(fs[PRIMARY].data)
                        ELSE [NoTokenizer EXCEPT !.type = "nonobject"]
        /\ pc' = "repair"
        /\ UNCHANGED <<rc, exitVia>>
  /\ UNCHANGED <<args, fs, fs0, id_by_obj, modified_count, dedup_removed,
                 repaired, errors, st_map, after_tpl, writes, textVars>>

\* lines 286-288
CaptureIds(items) ==
  {<<items[i].obj, items[i].id>> : i \in {k \in 1..Len(items) : items[k].isdict}}

\* lines 276-315; a document that is no JSON object has no .get (line 283)
TokenPass ==
  /\ pc = "repair"
  /\ \/ /\ tokenizer.type = "nonobject"
        /\ Exit(1, "traceback")
        /\ UNCHANGED <<tokenizer, id_by_obj, modified_count, repaired>>
     \/ /\ tokenizer.type = "tokenizer"
        /\ tokenizer.added_tokens.kind = "list"
        /\ LET after == RepairEntries(tokenizer.added_tokens.items)
           IN /\ tokenizer' = [tokenizer EXCEPT !.added_tokens.items = after]
              /\ repaired' = after
              /\ modified_count' = CountChanges(tokenizer.added_tokens.items, after)
        /\ id_by_obj' = CaptureIds(tokenizer.added_tokens.items)
        /\ pc' = "dedupe"
        /\ UNCHANGED <<rc, exitVia>>
     \/ /\ tokenizer.type = "tokenizer"
        /\ tokenizer.added_tokens.kind # "list"
        /\ pc' = "special"
        /\ UNCHANGED <<rc, exitVia, tokenizer, id_by_obj, modified_count, repaired>>
  /\ UNCHANGED <<args, fs, fs0, dedup_removed, errors, st_map, after_tpl, writes,
                 textVars>>

\* lines 331-335 with the survivors numbered anew by position
ListAfterDedupeRenumbered(items, d) ==
  IF d.removed # <<>>
  THEN [k \in 1..Len(d.new_list) |-> [d.new_list[k] EXCEPT !.id = k - 1]]
  ELSE items

\* lines 331-335: the list is replaced only when something was removed
ListAfterDedupe(items, d) == IF d.removed # <<>> THEN d.new_list ELSE items

\* lines 316-339
DedupePass ==
  /\ pc = "dedupe"
  /\ LET d == Dedupe(tokenizer.added_tokens.items)
     IN /\ tokenizer' = [tokenizer EXCEPT !.added_tokens.items = ListAfterDedupe(@, d)]
        /\ dedup_removed' = d.removed
  /\ pc' = "special"
  /\ UNCHANGED <<args, fs, fs0, rc, exitVia, id_by_obj, modified_count, repaired,
                 errors, st_map, after_tpl, writes, textVars>>

\* lines 341-375
SpecialPass ==
  /\ pc = "special"
  /\ \/ /\ tokenizer.special_tokens.kind = "dict"
        /\ LET after == RepairRoles(tokenizer.special_tokens.map)
           IN /\ tokenizer' = [tokenizer EXCEPT !.special_tokens.map = after]
              /\ modified_count' =
                   modified_count + CountRoleChanges(tokenizer.special_tokens.map, after)
     \/ /\ tokenizer.special_tokens.kind = "list"
        /\ LET after == RepairListEntries(tokenizer.special_tokens.items)
           IN /\ tokenizer' = [tokenizer EXCEPT !.special_tokens.items = after]
              /\ modified_count' =
                   modified_count + CountChanges(tokenizer.special_tokens.items, after)
     \/ /\ tokenizer.special_tokens.kind = "absent"
        /\ UNCHANGED <<tokenizer, modified_count>>
  /\ pc' = "idcheck"
  /\ UNCHANGED <<args, fs, fs0, rc, exitVia, id_by_obj, dedup_removed, repaired,
                 errors, st_map, after_tpl, writes, textVars>>

\* lines 412-421
IdErrors(added, ids) ==
  IF added.kind # "list" THEN {}
  ELSE {i \in 1..Len(added.items) :
          /\ added.items[i].isdict
          /\ \E p \in ids : p[1] = added.items[i].obj /\ p[2] # added.items[i].id}

\* lines 411-426
IdCheck ==
  /\ pc = "idcheck"
  /\ IF IdErrors(tokenizer.added_tokens, id_by_obj) # {}
     THEN Exit(1, "id_changed")
     ELSE /\ pc' = "bos_eos"
          /\ UNCHANGED <<rc, exitVia>>
  /\ UNCHANGED <<args, fs, fs0, tokenizer, id_by_obj, modified_count,
                 dedup_removed, repaired, errors, st_map, after_tpl, writes, textVars>>

\* lines 434-438
validate_bos_eos_value(name, value) ==
  (IF name = "bos_token" /\ value # CANON_BOS
   THEN <<Err("bos_mismatch", 0, value)>> ELSE <<>>)
  \o (IF name = "eos_token" /\ value # CANON_EOS
      THEN <<Err("eos_mismatch", 0, value)>> ELSE <<>>)

\* lines 445-452: the value of a role of special_tokens_map.json
SpmapValue(v) ==
  IF v.has # "str" THEN v
  ELSE LET val == cleanup_marker_like_string(v.s)
           r == looks_like_one_of_four_chat_markers(val)
       IN JStr(IF r.ok THEN r.canon ELSE val)

\* lines 444-457: st_map after the loop over the two keys
SpmapAfter(m) ==
  [m EXCEPT !.bos_token = SpmapValue(@), !.eos_token = SpmapValue(@)]

\* line 458, for the keys in order: m is st_map after the loop
SpmapErrors(m) ==
  (IF m.bos_token.has = "str"
   THEN validate_bos_eos_value("bos_token", m.bos_token.s) ELSE <<>>)
  \o (IF m.eos_token.has = "str"
      THEN validate_bos_eos_value("eos_token", m.eos_token.s) ELSE <<>>)

HasContent(items, c) ==
  \E i \in 1..Len(items) : items[i].isdict /\ items[i].cstr /\ items[i].content = c

\* lines 473-489: found_bos / found_eos before the fallback
FoundInSpecial(st, role, canon) ==
  \/ st.kind = "dict" /\ st.map[role].has = "str" /\ st.map[role].s = canon
  \/ st.kind = "list" /\ HasContent(st.items, canon)

\* lines 491-500: found_bos / found_eos after the fallback
FoundAfter(t, role, canon) ==
  \/ FoundInSpecial(t.special_tokens, role, canon)
  \/ /\ \/ ~FoundInSpecial(t.special_tokens, "bos_token", CANON_BOS)
        \/ ~FoundInSpecial(t.special_tokens, "eos_token", CANON_EOS)
     /\ t.added_tokens.kind = "list"
     /\ HasContent(t.added_tokens.items, canon)

\* lines 469-504
InferErrors(t) ==
  (IF t.special_tokens.kind = "dict" /\ t.special_tokens.map.bos_token.has = "str"
   THEN validate_bos_eos_value(
          "bos_token", demojibake_and_normalize(t.special_tokens.map.bos_token.s))
   ELSE <<>>)
  \o (IF t.special_tokens.kind = "dict" /\ t.special_tokens.map.eos_token.has = "str"
      THEN validate_bos_eos_value(
             "eos_token", demojibake_and_normalize(t.special_tokens.map.eos_token.s))
      ELSE <<>>)
  \o (IF ~FoundAfter(t, "bos_token", CANON_BOS)
      THEN <<Err("missing_bos", 0, CANON_BOS)>> ELSE <<>>)
  \o (IF ~FoundAfter(t, "eos_token", CANON_EOS)
      THEN <<Err("missing_eos", 0, CANON_EOS)>> ELSE <<>>)

\* line 460 without its test of args.dry
WritesSpmapBackUnguarded == TRUE

\* line 460
WritesSpmapBack == ~args.dry

\* lines 428-458 and 466-504
BosEosCheck ==
  /\ pc = "bos_eos"
  /\ \/ /\ Exists(fs[SPMAP])
        /\ ~Parses(ReadText(fs[SPMAP]))
        /\ errors' = Append(errors, Err("spmap_failed", 0, <<>>))
        /\ pc' = "validate"
        /\ UNCHANGED st_map
     \/ /\ Exists(fs[SPMAP])
        /\ Parses(ReadText(fs[SPMAP]))
        /\ LET m == SpmapAfter(fs[SPMAP].data)
           IN /\ st_map' = m
              /\ errors' = errors \o SpmapErrors(m)
        /\ pc' = IF WritesSpmapBack THEN "spmap_backup" ELSE "validate"
     \/ /\ ~Exists(fs[SPMAP])
        /\ errors' = errors \o InferErrors(tokenizer)
        /\ pc' = "validate"
        /\ UNCHANGED st_map
  /\ UNCHANGED <<args, fs, fs0, rc, exitVia, tokenizer, id_by_obj, modified_count,
                 dedup_removed, repaired, after_tpl, writes, textVars>>

\* lines 462-463
SpmapBackup ==
  /\ pc = "spmap_backup"
  /\ fs' = [fs EXCEPT ![SPMAP_BAK] = WriteText(ReadText(fs[SPMAP]))]
  /\ Written(SPMAP_BAK, WriteText(ReadText(fs[SPMAP])))
  /\ pc' = "spmap_write"
  /\ UNCHANGED <<args, fs0, rc, exitVia, tokenizer, id_by_obj, modified_count,
                 dedup_removed, repaired, errors, st_map, after_tpl, textVars>>

\* line 465
SpmapWrite ==
  /\ pc = "spmap_write"
  /\ fs' = [fs EXCEPT ![SPMAP] = JsonFile(FALSE, FALSE, st_map)]
  /\ Written(SPMAP, JsonFile(FALSE, FALSE, st_map))
  /\ pc' = "validate"
  /\ UNCHANGED <<args, fs0, rc, exitVia, tokenizer, id_by_obj, modified_count,
                 dedup_removed, repaired, errors, st_map, after_tpl, textVars>>

RECURSIVE ConcatAll(_)
ConcatAll(ss) == IF ss = <<>> THEN <<>> ELSE Head(ss) \o ConcatAll(Tail(ss))

Repeat(e, n) == [i \in 1..n |-> e]

ZeroWidthCount(s) == Cardinality({i \in 1..Len(s) : s[i] \in ZERO_WIDTHS})

\* lines 383-390 (and 402-408) on the entry at index idx
EntryRemnants(tok, idx) ==
  IF ~(tok.isdict /\ tok.cstr) THEN <<>>
  ELSE (IF has_mojibake_remnants(tok.content)
        THEN <<Err("remnant", idx, tok.content)>> ELSE <<>>)
       \o (IF is_angle_bracketed(tok.content)
           THEN Repeat(Err("zero_width", idx, tok.content), ZeroWidthCount(tok.content))
           ELSE <<>>)

\* lines 393-398 on one value of the mapping
RoleRemnants(v) ==
  IF v.has # "str" THEN <<>>
  ELSE (IF has_mojibake_remnants(v.s) THEN <<Err("remnant", 0, v.s)>> ELSE <<>>)
       \o (IF is_angle_bracketed(v.s)
           THEN Repeat(Err("zero_width", 0, v.s), ZeroWidthCount(v.s)) ELSE <<>>)

ItemsRemnants(items) ==
  ConcatAll([i \in 1..Len(items) |-> EntryRemnants(items[i], i - 1)])

\* lines 378-409
scan_for_remnants(t) ==
  (IF t.added_tokens.kind = "list" THEN ItemsRemnants(t.added_tokens.items) ELSE <<>>)
  \o (CASE t.special_tokens.kind = "dict" ->
             RoleRemnants(t.special_tokens.map.bos_token)
               \o RoleRemnants(t.special_tokens.map.eos_token)
               \o RoleRemnants(t.special_tokens.map.pad_token)
        [] t.special_tokens.kind = "list" -> ItemsRemnants(t.special_tokens.items)
        [] OTHER -> <<>>)

\* lines 512-523 on the entry at index idx
EntryFlagErrors(tok, idx) ==
  IF ~(tok.isdict /\ tok.cstr) THEN <<>>
  ELSE (IF tok.content \in {CANON_BOS, CANON_EOS} /\ tok.special # "true"
        THEN <<Err("flag_special", idx, tok.content)>> ELSE <<>>)
       \o (IF /\ \/ Contains(tok.content, <<FULLWIDTH_BAR>>)
                 \/ Contains(tok.content, <<SPM_BLOCK>>)
              /\ tok.normalized # "false"
           THEN <<Err("flag_normalized", idx, tok.content)>> ELSE <<>>)

\* lines 510-523
FlagErrors(t) ==
  IF t.added_tokens.kind # "list" THEN <<>>
  ELSE ConcatAll([i \in 1..Len(t.added_tokens.items) |->
                    EntryFlagErrors(t.added_tokens.items[i], i - 1)])

\* lines 526-540 without the branch of lines 534-537
load_vocab_map_FileOnly(files, t) ==
  IF Exists(files[VOCAB])
  THEN IF Parses(ReadText(files[VOCAB])) THEN files[VOCAB].data.map ELSE {}
  ELSE {}

\* lines 526-540: vocab.json when it exists (an unreadable one leaves the
\* empty mapping), else the vocabulary embedded in the document
load_vocab_map(files, t) ==
  IF Exists(files[VOCAB])
  THEN IF Parses(ReadText(files[VOCAB])) THEN files[VOCAB].data.map ELSE {}
  ELSE IF t.vocab.kind = "dict" THEN t.vocab.map ELSE {}

Markers == {CANON_BOS, CANON_EOS, CANON_USER, CANON_ASSISTANT}

IsMarkerEntry(tok) == tok.isdict /\ tok.cstr /\ tok.content \in Markers

\* lines 545-556: marker_ids holds a marker at the place of its first entry
\* with the id of its last one
VocabErrorAt(items, vocab, i) ==
  IF /\ IsMarkerEntry(items[i])
     /\ \A j \in 1..(i - 1) : ~(IsMarkerEntry(items[j]) /\ items[j].content = items[i].content)
  THEN LET last == CHOOSE j \in i..Len(items) :
                     /\ IsMarkerEntry(items[j]) /\ items[j].content = items[i].content
                     /\ \A m \in (j + 1)..Len(items) :
                          ~(IsMarkerEntry(items[m]) /\ items[m].content = items[i].content)
       IN IF \E p \in vocab : p[1] = items[i].content /\ p[2] # items[last].id
          THEN <<Err("vocab_collision", items[last].id, items[i].content)>> ELSE <<>>
  ELSE <<>>

\* lines 542-556
VocabErrors(files, t) ==
  IF load_vocab_map(files, t) = {} \/ t.added_tokens.kind # "list" THEN <<>>
  ELSE ConcatAll([i \in 1..Len(t.added_tokens.items) |->
                    VocabErrorAt(t.added_tokens.items, load_vocab_map(files, t), i)])

\* json.dumps(pat): the string literal, its backslashes and quotes escaped
JsonDumpsStr(pat) ==
  <<34>> \o Replace(Replace(pat, <<92>>, <<92, 92>>), <<34>>, <<92, 34>>) \o <<34>>

\* lines 564-572 on one pattern
PatternIssues(pat) ==
  (IF has_mojibake_remnants(pat) THEN <<Err("regex_remnant", 0, pat)>> ELSE <<>>)
  \o (IF /\ Contains(pat, <<92, 112, 123>>)
         /\ ~Contains(JsonDumpsStr(pat), <<92, 92, 112, 123>>)
      THEN <<Err("regex_escape", 0, pat)>> ELSE <<>>)

\* lines 559-579: patterns are the pattern strings the walk meets
verify_regex_payloads(t) ==
  ConcatAll([i \in 1..Len(t.patterns) |-> PatternIssues(t.patterns[i])])

\* lines 506-602
ValidateRest ==
  /\ pc = "validate"
  /\ errors' = errors \o scan_for_remnants(tokenizer) \o FlagErrors(tokenizer)
                 \o VocabErrors(fs, tokenizer) \o verify_regex_payloads(tokenizer)
                 \o (IF args.dry THEN SelfTestErrors ELSE <<>>)
  /\ pc' = "tcfg"
  /\ UNCHANGED <<args, fs, fs0, rc, exitVia, tokenizer, id_by_obj, modified_count,
                 dedup_removed, repaired, st_map, after_tpl, writes, textVars>>

\* line 610
HasTemplate(f) == f.data.isdict /\ f.data.chat_template.has = "str"

\* line 615
WritesTemplate == ~args.dry

\* lines 604-615 and 620-621
TcfgProcess ==
  /\ pc = "tcfg"
  /\ \/ /\ ~Exists(fs[TCFG])
        /\ pc' = "gate"
        /\ UNCHANGED <<errors, after_tpl>>
     \/ /\ Exists(fs[TCFG])
        /\ ~Parses(ReadText(fs[TCFG]))
        /\ errors' = Append(errors, Err("tcfg_failed", 0, <<>>))
        /\ pc' = "gate"
        /\ UNCHANGED after_tpl
     \/ /\ Exists(fs[TCFG])
        /\ Parses(ReadText(fs[TCFG]))
        /\ IF HasTemplate(fs[TCFG])
           THEN LET after == fix_markers_in_text(fs[TCFG].data.chat_template.s)
                IN IF after # fs[TCFG].data.chat_template.s
                   THEN /\ after_tpl' = JStr(after)
                        /\ pc' = IF WritesTemplate THEN "tcfg_backup" ELSE "gate"
                   ELSE /\ pc' = "gate"
                        /\ UNCHANGED after_tpl
           ELSE /\ pc' = "gate"
                /\ UNCHANGED after_tpl
        /\ UNCHANGED errors
  /\ UNCHANGED <<args, fs, fs0, rc, exitVia, tokenizer, id_by_obj, modified_count,
                 dedup_removed, repaired, st_map, writes, textVars>>

\* line 617
TcfgBackup ==
  /\ pc = "tcfg_backup"
  /\ fs' = [fs EXCEPT ![TCFG_BAK] = WriteText(ReadText(fs[TCFG]))]
  /\ Written(TCFG_BAK, WriteText(ReadText(fs[TCFG])))
  /\ pc' = "tcfg_write"
  /\ UNCHANGED <<args, fs0, rc, exitVia, tokenizer, id_by_obj, modified_count,
                 dedup_removed, repaired, errors, st_map, after_tpl, textVars>>

\* lines 618-619
TcfgWrite ==
  /\ pc = "tcfg_write"
  /\ fs' = [fs EXCEPT ![TCFG] =
              JsonFile(FALSE, FALSE, [fs[TCFG].data EXCEPT !.chat_template = after_tpl])]
  /\ Written(TCFG, JsonFile(FALSE, FALSE,
                            [fs[TCFG].data EXCEPT !.chat_template = after_tpl]))
  /\ pc' = "gate"
  /\ UNCHANGED <<args, fs0, rc, exitVia, tokenizer, id_by_obj, modified_count,
                 dedup_removed, repaired, errors, st_map, after_tpl, textVars>>

\* lines 623-641
Gate ==
  /\ pc = "gate"
  /\ \/ /\ errors # <<>>
        /\ Exit(1, "validation")
     \/ /\ errors = <<>>
        /\ args.dry
        /\ Exit(0, "dry_ok")
     \/ /\ errors = <<>>
        /\ ~args.dry
        /\ pc' = "main_backup"
        /\ UNCHANGED <<rc, exitVia>>
  /\ UNCHANGED <<args, fs, fs0, tokenizer, id_by_obj, modified_count,
                 dedup_removed, repaired, errors, st_map, after_tpl, writes, textVars>>

\* lines 643-649: backup_path is the input path whatever --out names
MainBackup ==
  /\ pc = "main_backup"
  /\ fs' = [fs EXCEPT ![PRIMARY_BAK] = WriteText(ReadText(fs[PRIMARY]))]
  /\ Written(PRIMARY_BAK, WriteText(ReadText(fs[PRIMARY])))
  /\ pc' = "main_write"
  /\ UNCHANGED <<args, fs0, rc, exitVia, tokenizer, id_by_obj, modified_count,
                 dedup_removed, repaired, errors, st_map, after_tpl, textVars>>

\* outp
OutPath == IF args.inplace THEN PRIMARY ELSE OUTP

\* lines 654-663 and write_json (190-193)
MainWrite ==
  /\ pc = "main_write"
  /\ fs' = [fs EXCEPT ![OutPath] = JsonFile(FALSE, FALSE, DumpTokenizer(tokenizer))]
  /\ Written(OutPath, JsonFile(FALSE, FALSE, DumpTokenizer(tokenizer)))
  /\ Exit(0, "written")
  /\ UNCHANGED <<args, fs0, tokenizer, id_by_obj, modified_count,
                 dedup_removed, repaired, errors, st_map, after_tpl, textVars>>

Next ==
  \/ LoadMissing
  \/ LoadExisting
  \/ TokenPass
  \/ DedupePass
  \/ SpecialPass
  \/ IdCheck
  \/ BosEosCheck
  \/ SpmapBackup
  \/ SpmapWrite
  \/ ValidateRest
  \/ TcfgProcess
  \/ TcfgBackup
  \/ TcfgWrite
  \/ Gate
  \/ MainBackup
  \/ MainWrite

Spec == Init /\ [][Next]_vars

(***************************************************************************)
(* The text functions on their own: one evaluation takes a text, applies   *)
(* one function to it up to MaxPasses times in a row, and may hand the     *)
(* latest text to looks_like_one_of_four_chat_markers.                     *)
(***************************************************************************)
Alphabet == {LessThan, GreaterThan, AsciiBar, FULLWIDTH_BAR, 195, 169, 233, 32}

ShortTexts == UNION {[1..n -> Alphabet] : n \in 0..MaxLen}

CanonMarkers == {CANON_BOS, CANON_EOS, CANON_USER, CANON_ASSISTANT}

\* a marker with ASCII bars in place of the full-width ones
AsciiForm(canon) == Replace(canon, <<FULLWIDTH_BAR>>, <<AsciiBar>>)

\* <<corrupted spelling, canonical marker>>
CorruptedForms ==
  UNION {{<<Latin1Form(c), c>>, <<Cp1252Form(c), c>>, <<TruncatedForm(c), c>>}
         : c \in CanonMarkers}

\* a marker with each of its two bars written as | or as the full-width bar
MarkerSpellings(canon) ==
  {<<LessThan, b[1]>> \o SubSeq(canon, 3, Len(canon) - 2) \o <<b[2], GreaterThan>>
     : b \in {AsciiBar, FULLWIDTH_BAR} \X {AsciiBar, FULLWIDTH_BAR}}

MarkerTexts ==
  CanonMarkers \cup {AsciiForm(c) : c \in CanonMarkers}
    \cup UNION {MarkerSpellings(c) : c \in CanonMarkers}
    \cup {p[1] : p \in CorruptedForms}

\* the pieces a chat template is put together from
TemplatePieces ==
  {Hello, World, AsciiUser, CANON_ASSISTANT, <<LessThan, 32>>, <<13, 10>>,
   <<8220>>}

Templates ==
  UNION {{ConcatAll(ps) : ps \in [1..n -> TemplatePieces]} : n \in 1..MaxPieces}

TextInputs == ShortTexts \cup MarkerTexts \cup Templates

InitText ==
  /\ Start([dry |-> TRUE, inplace |-> TRUE], MkFs(Missing, Missing, Missing, Missing))
  /\ tfn = "none"
  /\ tin \in TextInputs
  /\ touts = <<>>
  /\ tmark = [done |-> FALSE, ok |-> FALSE, canon |-> <<>>]

\* the text the next call receives
Latest == IF touts = <<>> THEN tin ELSE touts[Len(touts)]

CanApply(name) ==
  /\ tfn \in {"none", name}
  /\ ~tmark.done
  /\ Len(touts) < MaxPasses

Applied(name, out) ==
  /\ tfn' = name
  /\ touts' = Append(touts, out)
  /\ UNCHANGED <<tin, tmark, mainVars>>

ApplyDemojibake ==
  /\ CanApply("demojibake_and_normalize")
  /\ Applied("demojibake_and_normalize", demojibake_and_normalize(Latest))

ApplyCleanup ==
  /\ CanApply("cleanup_marker_like_string")
  /\ Applied("cleanup_marker_like_string", cleanup_marker_like_string(Latest))

ApplyFixMarkers ==
  /\ CanApply("fix_markers_in_text")
  /\ Applied("fix_markers_in_text", fix_markers_in_text(Latest))

ApplyRepairContent ==
  /\ CanApply("repair_content")
  /\ Applied("repair_content", RepairContent(Latest))

ApplyLooksLike ==
  /\ ~tmark.done
  /\ LET r == looks_like_one_of_four_chat_markers(Latest)
     IN tmark' = [done |-> TRUE, ok |-> r.ok, canon |-> r.canon]
  /\ UNCHANGED <<tfn, tin, touts, mainVars>>

NextText ==
  \/ ApplyDemojibake
  \/ ApplyCleanup
  \/ ApplyFixMarkers
  \/ ApplyRepairContent
  \/ ApplyLooksLike

SpecText == InitText /\ [][NextText]_vars

(***************************************************************************)
(* Properties of main().                                                   *)
(***************************************************************************)
\* main() ran through to its report (lines 623-663)
Reported == pc = "done" /\ exitVia \in {"validation", "dry_ok", "written"}

BakOf(name) ==
  CASE name = PRIMARY -> PRIMARY_BAK
    [] name = SPMAP -> SPMAP_BAK
    [] name = TCFG -> TCFG_BAK

\* C1: a normal (not --dry-run) run that ends with a non-empty set of
\* validation errors has written no file: neither tokenizer.json,
\* special_tokens_map.json, tokenizer_config.json nor any of their backups.
C1_ErrorsSuppressWrites ==
  (pc = "done" /\ ~args.dry /\ errors # <<>>) => (writes = <<>> /\ fs = fs0)

\* C2: in a --dry-run run no file is created or modified, whatever the
\* document and the companion files, with or without validation errors.
C2_DryRunWritesNothing == args.dry => (fs = fs0 /\ writes = <<>>)

\* a dry run over a document with repairs to make, beside both companion
\* files (the chat template in need of rewriting), that ended with errors
C2_Witness ==
  /\ Reported
  /\ args.dry
  /\ errors # <<>>
  /\ modified_count > 0
  /\ Exists(fs0[SPMAP])
  /\ Exists(fs0[TCFG])
  /\ after_tpl.has = "str"
  /\ after_tpl.s # fs0[TCFG].data.chat_template.s

\* the text of a file with a leading byte-order mark dropped and nothing else
\* changed
BomStripped(f) == [f EXCEPT !.bom = FALSE]

\* C3: each write of new content to tokenizer.json, special_tokens_map.json
\* or tokenizer_config.json is preceded, in the same run, by a write of its
\* .bak sibling holding the content the file had before the run, BOM-stripped.
C3_BackupBeforeWrite ==
  \A i \in 1..Len(writes) :
    writes[i].file \in {PRIMARY, SPMAP, TCFG} =>
      \E j \in 1..(i - 1) :
        /\ writes[j].file = BakOf(writes[i].file)
        /\ writes[j].content = BomStripped(fs0[writes[i].file])

\* C4: the repair is idempotent: applying demojibake_and_normalize,
\* cleanup_marker_like_string, fix_markers_in_text or the repair of one
\* content string to its own result gives that result again, for every text.
C4_Idempotent == Len(touts) = 2 => touts[2] = touts[1]

\* the added_tokens pass and the deduplication are over
Deduped ==
  /\ pc \notin {"load", "repair", "dedupe"}
  /\ exitVia # "traceback"
  /\ tokenizer.added_tokens.kind = "list"

HasStr(tok) == tok.isdict /\ tok.cstr

\* the positions of the repaired list whose string content an earlier
\* position already has
LaterDuplicates ==
  {i \in 1..Len(repaired) :
     /\ HasStr(repaired[i])
     /\ \E j \in 1..(i - 1) :
          HasStr(repaired[j]) /\ repaired[j].content = repaired[i].content}

OriginalEntry(obj) == fs0[PRIMARY].data.added_tokens.items[obj]

\* C6: every entry of added_tokens keeps, through content repair, flag
\* forcing and deduplication, the id it was loaded with; the abort for
\* changed ids is never taken, so it cannot follow a write.
C6_IdsPreserved ==
  /\ \A k \in 1..Len(tokenizer.added_tokens.items) :
       LET tok == tokenizer.added_tokens.items[k]
       IN tok.isdict => tok.id = OriginalEntry(tok.obj).id
  /\ exitVia # "id_changed"
  /\ pc = "idcheck" => (writes = <<>> /\ fs = fs0)

\* a run that repaired the content of a surviving entry, removed a duplicate
\* and went on to write
C6_Witness ==
  /\ pc = "done"
  /\ exitVia = "written"
  /\ dedup_removed # <<>>
  /\ \E k \in 1..Len(tokenizer.added_tokens.items) :
       LET tok == tokenizer.added_tokens.items[k]
       IN /\ HasStr(tok)
          /\ tok.content # OriginalEntry(tok.obj).content
          /\ tok.id = OriginalEntry(tok.obj).id

ErrorsOfKind(kinds) == SelectSeq(errors, LAMBDA e : e.kind \in kinds)

\* the canonical marker is the role's value in special_tokens_map.json, or
\* is in the document's special_tokens (as the role's value of the mapping,
\* or the content of an entry of the list), or is the content of an entry
\* of added_tokens
FoundSomewhere(role, canon) ==
  \/ st_map[role] = JStr(canon)
  \/ /\ tokenizer.special_tokens.kind = "dict"
     /\ tokenizer.special_tokens.map[role] = JStr(canon)
  \/ /\ tokenizer.special_tokens.kind = "list"
     /\ \E i \in 1..Len(tokenizer.special_tokens.items) :
          /\ HasStr(tokenizer.special_tokens.items[i])
          /\ tokenizer.special_tokens.items[i].content = canon
  \/ /\ tokenizer.added_tokens.kind = "list"
     /\ \E i \in 1..Len(tokenizer.added_tokens.items) :
          /\ HasStr(tokenizer.added_tokens.items[i])
          /\ tokenizer.added_tokens.items[i].content = canon

\* <<role, canonical marker, kind of the missing-marker error, kind of the
\* mismatch error>>
RequiredMarkers ==
  { <<"bos_token", CANON_BOS, "missing_bos", "bos_mismatch">>,
    <<"eos_token", CANON_EOS, "missing_eos", "eos_mismatch">> }

\* C7: for the BOS and the EOS marker, a run reports exactly one
\* missing-marker error when the canonical marker is found in none of
\* special_tokens_map.json's role values, the special_tokens and the
\* added_tokens, and no error about the marker when it is found in one of
\* them, whether special_tokens_map.json is missing or is there (and JSON),
\* with or without the bos_token and eos_token keys.
C7_RequiredMarkers ==
  (Reported /\ (Exists(fs0[SPMAP]) => Parses(fs0[SPMAP]))) =>
    \A m \in RequiredMarkers :
      IF FoundSomewhere(m[1], m[2])
      THEN ErrorsOfKind({m[3], m[4]}) = <<>>
      ELSE Len(ErrorsOfKind({m[3]})) = 1

C9_CorruptedFormsCanonicalize ==
  \A p \in CorruptedForms :
    (tin = p[1] /\ tfn = "demojibake_and_normalize" /\ Len(touts) = 1 /\ tmark.done)
      => (tmark.ok /\ tmark.canon = p[2])

\* C10: fix_markers_in_text replaces every marker written with ASCII or
\* full-width bars by its canonical form, whatever precedes or follows it,
\* so that no other spelling of a marker is left in its result; a text
\* without a <...> segment comes out as repair, zero-width stripping and
\* line-ending standardization leave it; and Hello <|User|> world becomes
\* Hello, the canonical UserTurn marker, world.
C10_TemplateMarkersCanonical ==
  (tfn = "fix_markers_in_text" /\ Len(touts) >= 1) =>
    LET out == touts[1]
        t == standardize_line_endings(
               strip_zero_width_and_variation(demojibake_and_normalize(tin)))
    IN /\ \A c \in CanonMarkers :
            \A sp \in MarkerSpellings(c) \ {c} : ~Contains(out, sp)
       /\ (Count(t, LessThan) = 0 \/ Count(t, GreaterThan) = 0) => out = t
       /\ tin = Hello \o AsciiUser \o World => out = Hello \o CANON_USER \o World

(***************************************************************************)
(* Properties of the flags and of the vocabulary check.                    *)
(***************************************************************************)
\* the positions of the loaded added_tokens holding the canonical BOS marker
\* with special = false
BosNotSpecial ==
  {i \in 1..Len(repaired) :
     /\ HasStr(OriginalEntry(i))
     /\ OriginalEntry(i).content = CANON_BOS
     /\ OriginalEntry(i).special = "false"}

\* C11 as stated: a loaded entry holding the canonical BOS marker with
\* special = false makes the run report a validation error about the missing
\* special flag of that entry, whose content is left unchanged.
C11_FlagErrorReported ==
  (Reported /\ Deduped) =>
    \A i \in BosNotSpecial :
      /\ repaired[i].content = CANON_BOS
      /\ \E k \in 1..Len(errors) :
           errors[k].kind = "flag_special" /\ errors[k].text = CANON_BOS

\* C11 as amended: the added_tokens pass sets the special flag of such an
\* entry to true and leaves its content unchanged, and the run reports no
\* error about a missing special flag.
C11_FlagForcedNotReported ==
  (Reported /\ Deduped) =>
    /\ \A i \in BosNotSpecial :
         repaired[i].content = CANON_BOS /\ repaired[i].special = "true"
    /\ BosNotSpecial # {} => ErrorsOfKind({"flag_special"}) = <<>>

\* a run over a document with such an entry, which survived deduplication
C11_Witness ==
  /\ Reported
  /\ Deduped
  /\ \E k \in 1..Len(tokenizer.added_tokens.items) :
       tokenizer.added_tokens.items[k].obj \in BosNotSpecial

\* s is the marker canon with any of its full-width bars written as |
SpellsMarker(s, canon) ==
  /\ Len(s) = Len(canon)
  /\ s[1] = LessThan
  /\ s[Len(s)] = GreaterThan
  /\ \A i \in 2..(Len(s) - 1) :
       (IF s[i] = AsciiBar THEN FULLWIDTH_BAR ELSE s[i]) = canon[i]

\* C12: looks_like_one_of_four_chat_markers(s) is (true, c) exactly when s
\* is '<', a payload and '>' where the payload, its | read as full-width
\* bars, is one of the four marker payloads, c being that marker's
\* canonical string; otherwise it is (false, s).  So a canonical marker
\* gives (true, itself) and a true result always carries a canonical marker.
C12_MarkerCanonicalizer ==
  tmark.done =>
    /\ tmark.ok <=> \E c \in CanonMarkers : SpellsMarker(Latest, c)
    /\ \A c \in CanonMarkers : SpellsMarker(Latest, c) => tmark.canon = c
    /\ ~tmark.ok => tmark.canon = Latest
    /\ Latest \in CanonMarkers => (tmark.ok /\ tmark.canon = Latest)
    /\ tmark.ok => tmark.canon \in CanonMarkers

\* the canonicalizer met a marker written with at least one ASCII bar
C12_Witness ==
  /\ tmark.done
  /\ tmark.ok
  /\ tfn = "none"
  /\ Latest \notin CanonMarkers
  /\ tmark.canon = CANON_ASSISTANT

\* the flags the pass leaves on an entry that is an object with string content
FlagsForced(tok) ==
  HasStr(tok) =>
    /\ tok.normalized = "false"
    /\ tok.content \in {CANON_BOS, CANON_EOS} => tok.special = "true"

\* C13: once the added_tokens pass is over, every entry that is an object
\* with string content has normalized = false, and has special = true when
\* its content is the canonical BeginOfSequence or EndOfSequence marker,
\* whatever the flags of the input were; this holds of the list the pass
\* produced and of the surviving entries in every later state.
C13_FlagsForced ==
  (/\ pc \notin {"load", "repair"}
   /\ exitVia # "traceback"
   /\ tokenizer.type = "tokenizer"
   /\ tokenizer.added_tokens.kind = "list") =>
    /\ \A i \in 1..Len(repaired) : FlagsForced(repaired[i])
    /\ \A k \in 1..Len(tokenizer.added_tokens.items) :
         FlagsForced(tokenizer.added_tokens.items[k])

\* a surviving entry whose input carried neither flag and whose content
\* the pass turned into the BeginOfSequence marker
C13_Witness ==
  /\ Reported
  /\ Deduped
  /\ \E k \in 1..Len(tokenizer.added_tokens.items) :
       LET tok == tokenizer.added_tokens.items[k]
       IN /\ HasStr(tok)
          /\ tok.content = CANON_BOS
          /\ OriginalEntry(tok.obj).content # CANON_BOS
          /\ OriginalEntry(tok.obj).special = "absent"
          /\ OriginalEntry(tok.obj).normalized = "absent"

\* the vocabulary mapping of a run: that of a readable vocab.json, else,
\* without a vocab.json, the one embedded in the document
AvailableVocab ==
  IF Exists(fs0[VOCAB])
  THEN IF fs0[VOCAB].kind = "json" THEN fs0[VOCAB].data.map ELSE {}
  ELSE IF fs0[PRIMARY].data.vocab.kind = "dict"
       THEN fs0[PRIMARY].data.vocab.map ELSE {}

CollisionReported(m) ==
  \E k \in 1..Len(errors) : errors[k].kind = "vocab_collision" /\ errors[k].text = m

\* what a run that reached its report says about collisions
CollisionsExact ==
  (Reported /\ Deduped) =>
    \A m \in Markers :
      \A k \in 1..Len(tokenizer.added_tokens.items) :
        LET tok == tokenizer.added_tokens.items[k]
        IN (/\ HasStr(tok)
            /\ tok.content = m
            /\ \E p \in AvailableVocab : p[1] = m) =>
             (CollisionReported(m) <=>
                \E p \in AvailableVocab : p[1] = m /\ p[2] # tok.id)

\* the vocabulary, on disk and in the document, is the one that was loaded
VocabularyKept ==
  /\ fs[VOCAB] = fs0[VOCAB]
  /\ (pc # "load" /\ fs0[PRIMARY].kind = "json" /\ fs0[PRIMARY].data.type = "tokenizer") =>
       tokenizer.vocab = fs0[PRIMARY].data.vocab

\* C14: when the vocabulary mapping of the run (vocab.json, else the one
\* embedded in the document) holds a canonical marker that is the content
\* of an added_tokens entry, a collision error for that marker is reported
\* exactly when the vocabulary's id for it differs from the entry's id; and
\* the validation step changes neither the vocabulary nor the tokens.
C14_VocabCollision ==
  /\ [](CollisionsExact /\ VocabularyKept)
  /\ [][pc = "validate" => (tokenizer' = tokenizer /\ fs' = fs)]_vars

\* a collision with the embedded vocabulary was reported
C14_Witness ==
  /\ Reported
  /\ Deduped
  /\ ~Exists(fs0[VOCAB])
  /\ CollisionReported(CANON_EOS)
  /\ ~CollisionReported(CANON_BOS)
  /\ \E p \in AvailableVocab : p[1] = CANON_BOS

(* Properties of the repair of clean text. *)
\* s holds none of the known corrupted substrings and is in composed form
CleanText(s) ==
  /\ ~has_mojibake_remnants(s)
  /\ DirectReplace(s) = s
  /\ NFC(s) = s

\* s is made of non-ASCII characters other than the two marker characters
PlainNonAscii(s) ==
  \A i \in 1..Len(s) : s[i] > 127 /\ s[i] \notin {FULLWIDTH_BAR, SPM_BLOCK}

\* C15: demojibake_and_normalize returns a text that holds no known
\* corrupted substring and is in composed form as it is, and the content
\* repair of the added_tokens pass does not shorten such a text made of
\* non-ASCII characters other than the two marker characters.
C15_CleanContentKept ==
  (touts # <<>> /\ CleanText(tin)) =>
    /\ tfn = "demojibake_and_normalize" => touts[1] = tin
    /\ (tfn = "repair_content" /\ PlainNonAscii(tin)) => Len(touts[1]) >= Len(tin)

====
